---- MODULE Spec2Model ----
(***************************************************************************)
(* Model of the site checker (scripts/site-check.js) and of the layering   *)
(* pass of the site visualizer (scripts/site-visualize.js).                *)
(*                                                                         *)
(* Strings are modelled as sequences of tokens: an origin token ("H" is    *)
(* http://localhost:4000, the default CONFIG.baseUrl; "X" is an external   *)
(* origin), the character "/", path segments ("a", "b", "i"), the fragment *)
(* "#f" and "!" for text the URL parser rejects.  <<"H","/","a","/">> is   *)
(* the string http://localhost:4000/a/ .                                   *)
(***************************************************************************)
EXTENDS Naturals, Integers, Sequences, FiniteSets, TLC

\* ---------------------------------------------------------------- bounds
\* Largest page budget (CONFIG.maxPages) the model runs with.
MaxPagesBound == 3
\* Largest number of <loc> entries of a sitemap.
MaxSitemap == 2
\* Largest number of items (links, images, a redirect) the crawled site
\* serves over one run.
MaxSiteItems == 2

\* ------------------------------------------------------------- strings
NULL == <<>>

Origins == {"H", "X"}

baseUrl == <<"H">>

hostnameOf(origin) == IF origin = "H" THEN "localhost" ELSE "example.com"

portOf(origin) == IF origin = "H" THEN "4000" ELSE ""

endsWith(s, t) == Len(s) > 0 /\ s[Len(s)] = t

slice(s) == SubSeq(s, 1, Len(s) - 1)

\* Index of the last "/" of a path (0 when there is none).
LastSlash(p) ==
  LET idx == {i \in 1..Len(p) : p[i] = "/"}
  IN IF idx = {} THEN 0 ELSE CHOOSE i \in idx : \A j \in idx : j <= i

\* new URL(s) / new URL(s, base) does not throw.
CanParse(s, base) ==
  /\ s # <<>>
  /\ s[1] # "!"
  /\ (s[1] \notin Origins => (base # <<>> /\ base[1] \in Origins))

WithoutHash(s) == IF endsWith(s, "#f") THEN slice(s) ELSE s

HashOf(s) == IF endsWith(s, "#f") THEN <<"#f">> ELSE <<>>

PathOrRoot(p) == IF p = <<>> THEN <<"/">> ELSE p

\* The URL object new URL(s, base): origin, pathname and hash.
NewURL(s, base) ==
  IF s[1] \in Origins
  THEN [origin |-> s[1],
        pathname |-> PathOrRoot(WithoutHash(Tail(s))),
        hash |-> HashOf(s)]
  ELSE LET basePath == PathOrRoot(WithoutHash(Tail(base)))
       IN IF s[1] = "/"
          THEN [origin |-> base[1], pathname |-> WithoutHash(s), hash |-> HashOf(s)]
          ELSE IF s[1] = "#f"
          THEN [origin |-> base[1], pathname |-> basePath, hash |-> s]
          ELSE [origin |-> base[1],
                pathname |-> SubSeq(basePath, 1, LastSlash(basePath)) \o WithoutHash(s),
                hash |-> HashOf(s)]

Href(urlObj) == <<urlObj.origin>> \o urlObj.pathname \o urlObj.hash

normalizeHost(hostname) ==
  IF hostname = "0.0.0.0" \/ hostname = "localhost" THEN "localhost" ELSE hostname

\* Every URL that parses counts as internal.
isInternalUrlAny(url, base) == CanParse(url, base) /\ CanParse(base, <<>>)

isInternalUrl(url, base) ==
  /\ CanParse(url, base)
  /\ CanParse(base, <<>>)
  /\ LET urlObj == NewURL(url, base)
         baseObj == NewURL(base, <<>>)
     IN /\ normalizeHost(hostnameOf(urlObj.origin)) = normalizeHost(hostnameOf(baseObj.origin))
        /\ portOf(urlObj.origin) = portOf(baseObj.origin)

normalizeUrl(url, base) ==
  IF ~CanParse(url, base) THEN NULL
  ELSE LET urlObj == [NewURL(url, base) EXCEPT !.hash = <<>>]
           normalized == Href(urlObj)
       IN IF endsWith(normalized, "/") /\ normalized # base \o <<"/">>
          THEN slice(normalized)
          ELSE normalized

stripBaseUrl(url, base) ==
  IF ~CanParse(url, <<>>) \/ ~CanParse(base, <<>>) THEN url
  ELSE LET urlObj == NewURL(url, <<>>)
           baseObj == NewURL(base, <<>>)
       IN IF hostnameOf(urlObj.origin) = hostnameOf(baseObj.origin)
          THEN urlObj.pathname \o urlObj.hash
          ELSE url

\* ------------------------------------------------- containers (Set, Map)
EmptyMap == [k \in {} |-> k]

Put(map, k, v) == (k :> v) @@ map

Range(s) == {s[i] : i \in DOMAIN s}

\* Set.prototype.add on an insertion-ordered Set held as a sequence.
SetAdd(s, x) == IF x \in Range(s) THEN s ELSE Append(s, x)

RECURSIVE SetAddAll(_, _)
SetAddAll(s, xs) ==
  IF xs = <<>> THEN s ELSE SetAddAll(SetAdd(s, Head(xs)), Tail(xs))

RECURSIVE Filter(_, _)
Filter(s, keep) ==
  IF s = <<>> THEN <<>>
  ELSE IF Head(s) \in keep THEN <<Head(s)>> \o Filter(Tail(s), keep)
       ELSE Filter(Tail(s), keep)

\* ------------------------------------------------------ program state
VARIABLES
  state,      \* the state object of site-check.js
  maxPages,   \* CONFIG.maxPages
  pc,         \* position of main()
  allLinks,   \* validateLinks: the links still to be examined
  report,     \* the report returned by generateReport
  exitCode,   \* the argument of process.exit
  layout,     \* the result of calculateLayers on report.pages
  fetched,    \* history: the URLs handed to page.goto, in order
  probed,     \* history: the URLs handed to page.request.head, in order
  probeResults, \* history: what each of those requests gave, in the same order
  entered,    \* history: the URLs added to state.toVisit, in order
  itemsLeft,  \* environment: items the site may still serve
  sitemap,    \* history: what the sitemap request returned
  response,   \* history: what the last page.goto returned
  inFlight,   \* environment: image requests of the open page that are going to fail
  args,       \* the arguments of a URL helper called on its own
  result      \* what the URL helper returned

vars == <<state, maxPages, pc, allLinks, report, exitCode, layout,
          fetched, probed, probeResults, entered, itemsLeft, sitemap, response,
          inFlight, args, result>>

NoStatus == 0

NewPage(status) ==
  [outgoingLinks |-> [header |-> <<>>, footer |-> <<>>, content |-> <<>>],
   images |-> <<>>,
   incomingLinks |-> <<>>,
   status |-> status]

InitState ==
  [visited |-> {},
   toVisit |-> <<>>,
   pages |-> EmptyMap,
   pagesKeys |-> <<>>,
   brokenLinks |-> <<>>,
   brokenImages |-> EmptyMap,
   brokenImagesKeys |-> <<>>,
   redirects |-> <<>>,
   errors |-> <<>>,
   externalLinks |-> EmptyMap,
   externalLinksKeys |-> <<>>]

\* state.pages.set(k, v): a Map keeps its keys in insertion order.
PagesSet(st, k, v) ==
  [st EXCEPT !.pages = Put(@, k, v), !.pagesKeys = SetAdd(@, k)]

\* ----------------------------------------------------------- inputs
\* The href attributes the site's pages carry.
Hrefs ==
  {<<"/">>, <<"/", "a">>, <<"/", "a", "/">>, <<"/", "b", "#f">>, <<"X", "/">>}

\* The <loc> entries a sitemap may list.
SitemapLocs ==
  {<<"H", "/">>, <<"H", "/", "a">>, <<"H", "/", "b", "#f">>, <<"X", "/">>}

ImageSrcs == {<<"/", "i">>}

Alts == {"alt1", "alt2"}

BadStatuses == {404}

\* The status of the redirect response that led to the final response.
RedirectStatuses == {301}

SeqsOfLen(S, n) == [1..n -> S]

SeqsUpTo(S, n) == UNION {SeqsOfLen(S, k) : k \in 0..n}

\* ------------------------------------------------------------ seeding
\* loadSitemap: the normalized internal <loc> entries, or NULL.
RECURSIVE SitemapUrls(_)
SitemapUrls(locs) ==
  IF locs = <<>> THEN <<>>
  ELSE LET url == Head(locs)
           rest == SitemapUrls(Tail(locs))
       IN IF isInternalUrl(url, baseUrl) /\ normalizeUrl(url, baseUrl) # NULL
          THEN <<normalizeUrl(url, baseUrl)>> \o rest
          ELSE rest

loadSitemap(ok, locs) ==
  IF ~ok THEN NULL
  ELSE IF SitemapUrls(locs) = <<>> THEN NULL ELSE SitemapUrls(locs)

\* The homepage is always the first seed.
SeedWithHome(st, sitemapUrls) ==
  [st EXCEPT !.toVisit = SetAddAll(SetAdd(@, baseUrl), sitemapUrls)]

Seed(st, sitemapUrls) ==
  IF sitemapUrls # NULL /\ Len(sitemapUrls) > 0
  THEN [st EXCEPT !.toVisit = SetAddAll(@, sitemapUrls)]
  ELSE [st EXCEPT !.toVisit = SetAdd(@, baseUrl)]

\* ----------------------------------------------------------- crawlPage
MarkVisitedForgotten(visited, url) == visited

\* Only the page being fetched is remembered.
MarkVisitedOnlyLast(visited, url) == {url}

MarkVisited(visited, url) == visited \cup {url}

ShouldSkip(st, url) ==
  url \in st.visited \/ Cardinality(st.visited) >= maxPages

ShouldEnqueueUnlessPending(st, url) == url \notin Range(st.toVisit)

ShouldEnqueue(st, url) ==
  url \notin st.visited /\ url \notin Range(st.toVisit)

EnqueueFront(toVisit, url) ==
  IF url \in Range(toVisit) THEN toVisit ELSE <<url>> \o toVisit

\* The link target is not added.
EnqueueNothing(toVisit, url) == toVisit

Enqueue(toVisit, url) == SetAdd(toVisit, url)

\* The referrers stored with an error or a broken link are the page's
\* incomingLinks array itself (aliased), or a fresh empty array.
ReferrersOf(st, url) ==
  [aliased |-> url \in DOMAIN st.pages, url |-> url]

Referrers(st, ref) ==
  IF ref.aliased THEN st.pages[ref.url].incomingLinks ELSE <<>>

\* The entry is pushed once by the failing branch and once more on the way out.
PushErrorTwice(st, url, error) ==
  LET entry == [url |-> url, error |-> error, referrers |-> ReferrersOf(st, url)]
  IN [st EXCEPT !.errors = Append(Append(@, entry), entry)]

PushError(st, url, error) ==
  [st EXCEPT !.errors =
     Append(@, [url |-> url, error |-> error, referrers |-> ReferrersOf(st, url)])]

\* A record for a link target is created only when there is none yet.
EnsurePageAlways(st, url) == PagesSet(st, url, NewPage(NoStatus))

EnsurePage(st, url) ==
  IF url \in DOMAIN st.pages THEN st ELSE PagesSet(st, url, NewPage(NoStatus))

processLink(st, url, href, category) ==
  LET normalizedUrl == normalizeUrl(href, url)
  IN IF normalizedUrl = NULL THEN st
     ELSE IF isInternalUrl(normalizedUrl, baseUrl)
     THEN LET s1 == [st EXCEPT !.pages[url].outgoingLinks[category] =
                                  Append(@, normalizedUrl)]
              s2 == EnsurePage(s1, normalizedUrl)
              s3 == [s2 EXCEPT !.pages[normalizedUrl].incomingLinks = Append(@, url)]
          IN IF ShouldEnqueue(s3, normalizedUrl)
             THEN [s3 EXCEPT !.toVisit = Enqueue(@, normalizedUrl)]
             ELSE s3
     ELSE IF ~CanParse(normalizedUrl, <<>>) THEN st
     ELSE LET linkHostname == hostnameOf(NewURL(normalizedUrl, <<>>).origin)
              old == IF linkHostname \in DOMAIN st.externalLinks
                     THEN st.externalLinks[linkHostname] ELSE {}
          IN [st EXCEPT !.externalLinks = Put(@, linkHostname, old \cup {url}),
                        !.externalLinksKeys = SetAdd(@, linkHostname)]

RECURSIVE processLinks(_, _, _, _)
processLinks(st, url, links, category) ==
  IF links = <<>> THEN st
  ELSE processLinks(processLink(st, url, Head(links), category),
                    url, Tail(links), category)

\* Every failing occurrence overwrites the alt text of the entry.
processImageLastAlt(st, url, image, failedImages) ==
  LET imageUrl == normalizeUrl(image.src, url)
  IN IF imageUrl = NULL THEN st
     ELSE LET s1 == [st EXCEPT !.pages[url].images = Append(@, imageUrl)]
          IN IF imageUrl \notin failedImages THEN s1
             ELSE IF imageUrl \notin DOMAIN s1.brokenImages
             THEN [s1 EXCEPT !.brokenImages =
                     Put(@, imageUrl, [pages |-> <<url>>, alt |-> image.alt]),
                                !.brokenImagesKeys = SetAdd(@, imageUrl)]
             ELSE [s1 EXCEPT !.brokenImages[imageUrl].pages = Append(@, url),
                             !.brokenImages[imageUrl].alt = image.alt]

processImage(st, url, image, failedImages) ==
  LET imageUrl == normalizeUrl(image.src, url)
  IN IF imageUrl = NULL THEN st
     ELSE LET s1 == [st EXCEPT !.pages[url].images = Append(@, imageUrl)]
          IN IF imageUrl \notin failedImages THEN s1
             ELSE IF imageUrl \notin DOMAIN s1.brokenImages
             THEN [s1 EXCEPT !.brokenImages =
                     Put(@, imageUrl, [pages |-> <<url>>, alt |-> image.alt]),
                                !.brokenImagesKeys = SetAdd(@, imageUrl)]
             ELSE [s1 EXCEPT !.brokenImages[imageUrl].pages = Append(@, url)]

RECURSIVE processImages(_, _, _, _)
processImages(st, url, images, failedImages) ==
  IF images = <<>> THEN st
  ELSE processImages(processImage(st, url, Head(images), failedImages),
                     url, Tail(images), failedImages)

\* Only an added slash counts, not a removed one.
isAddedSlashRedirect(url, finalUrl) == finalUrl = url \o <<"/">>

isTrailingSlashRedirect(url, finalUrl) ==
  finalUrl = url \o <<"/">> \/ finalUrl \o <<"/">> = url

RecordRedirect(st, url, resp) ==
  IF resp.finalUrl # url /\ ~isTrailingSlashRedirect(url, resp.finalUrl)
  THEN [st EXCEPT !.redirects =
          Append(@, [from |-> url, to |-> resp.finalUrl, status |-> resp.status])]
  ELSE st

InitPageData(st, url, resp) ==
  IF url \notin DOMAIN st.pages
  THEN PagesSet(st, url, NewPage(resp.status))
  ELSE st

crawlPage(st, url, resp) ==
  IF ShouldSkip(st, url) THEN st
  ELSE LET s0 == [st EXCEPT !.visited = MarkVisited(@, url)]
       IN IF resp.kind = "gotoThrows" THEN PushError(s0, url, <<"timeout">>)
          ELSE IF resp.kind = "bad" THEN PushError(s0, url, <<"HTTP", resp.status>>)
          ELSE LET s1 == RecordRedirect(s0, url, resp)
               IN IF resp.kind = "extractThrows"
                  THEN PushError(s1, url, <<"closed">>)
                  ELSE LET s2 == InitPageData(s1, url, resp)
                           s3 == processLinks(s2, url, resp.headerLinks, "header")
                           s4 == processLinks(s3, url, resp.footerLinks, "footer")
                           s5 == processLinks(s4, url, resp.contentLinks, "content")
                       IN processImages(s5, url, resp.images, resp.failedImages)

\* What the page fetcher and the DOM extractor may return for url when the
\* site may still serve n items.
RedirectTargets(url) ==
  {url \o <<"/">>, <<"H", "/", "r">>}
    \cup (IF endsWith(url, "/") THEN {slice(url)} ELSE {})

FailedResponses ==
  {[kind |-> "gotoThrows", status |-> NoStatus, cost |-> 0]}
    \cup {[kind |-> "bad", status |-> s, cost |-> 0] : s \in BadStatuses}

\* The final URL of a page load: the requested one, or the one a redirect
\* (answered with redirectStatus) led to.
FinalUrls(url, n) ==
  {[url |-> url, redirectStatus |-> NoStatus, cost |-> 0]}
    \cup (IF n > 0
          THEN {[url |-> t, redirectStatus |-> s, cost |-> 1] :
                  t \in RedirectTargets(url), s \in RedirectStatuses}
          ELSE {})

\* extractLinksAndImages: content links are the links of the document whose
\* href is in neither the header nor the footer.
LinkBuckets(n) ==
  UNION {
    {b \in [headerLinks : SeqsOfLen(Hrefs, i),
            footerLinks : SeqsOfLen(Hrefs, j),
            contentLinks : SeqsOfLen(Hrefs, k)] :
       Range(b.contentLinks) \cap (Range(b.headerLinks) \cup Range(b.footerLinks)) = {}}
    : <<i, j, k>> \in {t \in (0..n) \X (0..n) \X (0..n) : t[1] + t[2] + t[3] <= n}}

ImageLoads(url, n) ==
  UNION {
    {[images |-> imgs, failedImages |-> failed] :
       failed \in SUBSET {Href(NewURL(imgs[x].src, url)) : x \in DOMAIN imgs}}
    : imgs \in SeqsUpTo([src : ImageSrcs, alt : Alts], n)}

LoadedResponses(url, n) ==
  UNION {
    UNION {
      {[kind |-> kind, status |-> 200, finalUrl |-> final.url,
        redirectStatus |-> final.redirectStatus,
        headerLinks |-> b.headerLinks, footerLinks |-> b.footerLinks,
        contentLinks |-> b.contentLinks,
        images |-> im.images, failedImages |-> im.failedImages,
        cost |-> final.cost + Len(b.headerLinks) + Len(b.footerLinks)
                   + Len(b.contentLinks) + Len(im.images)] :
         im \in ImageLoads(url, n - final.cost - Len(b.headerLinks)
                                  - Len(b.footerLinks) - Len(b.contentLinks)),
         kind \in {"ok"}}
      : b \in LinkBuckets(n - final.cost)}
    : final \in FinalUrls(url, n)}

ExtractFailures(url, n) ==
  {[kind |-> "extractThrows", status |-> 200, finalUrl |-> final.url,
    redirectStatus |-> final.redirectStatus, cost |-> final.cost] :
     final \in FinalUrls(url, n)}

\* What is remembered of a response: the outcome of page.goto.
NoResponse ==
  [kind |-> "none", status |-> NoStatus, finalUrl |-> NULL, redirectStatus |-> NoStatus,
   images |-> <<>>, failedImages |-> {}]

Outcome(resp) ==
  IF resp.kind \in {"gotoThrows", "bad"}
  THEN [kind |-> resp.kind, status |-> resp.status, finalUrl |-> NULL,
        redirectStatus |-> NoStatus, images |-> <<>>, failedImages |-> {}]
  ELSE IF resp.kind = "extractThrows"
  THEN [kind |-> resp.kind, status |-> resp.status, finalUrl |-> resp.finalUrl,
        redirectStatus |-> resp.redirectStatus, images |-> <<>>, failedImages |-> {}]
  ELSE [kind |-> resp.kind, status |-> resp.status, finalUrl |-> resp.finalUrl,
        redirectStatus |-> resp.redirectStatus,
        images |-> resp.images, failedImages |-> resp.failedImages]

Responses(url, n) ==
  FailedResponses \cup ExtractFailures(url, n) \cup LoadedResponses(url, n)

\* -------------------------------------------------------- validateLinks
RECURSIVE CollectLinks(_, _, _)
CollectLinks(st, keys, acc) ==
  IF keys = <<>> THEN acc
  ELSE LET data == st.pages[Head(keys)]
       IN CollectLinks(st, Tail(keys),
            SetAddAll(SetAddAll(SetAddAll(acc, data.outgoingLinks.header),
                                data.outgoingLinks.footer),
                      data.outgoingLinks.content))

ProbeOutcomes == {"404", "other", "error"}

\* Every collected link is probed, fetched or not.
NeedsProbeAlways(st, link) == TRUE

\* A page whose fetch failed is probed as well.
NeedsProbeFailedToo(st, link) ==
  link \notin st.visited \/ \E i \in DOMAIN st.errors : st.errors[i].url = link

NeedsProbe(st, link) == link \notin st.visited

\* A request that throws is recorded like a 404.
RecordProbeAnyFailure(st, link, outcome) ==
  IF outcome # "other"
  THEN [st EXCEPT !.brokenLinks =
          Append(@, [url |-> link, referrers |-> ReferrersOf(st, link), status |-> 404])]
  ELSE st

\* A request that throws is put on the error registry.
RecordProbeAsError(st, link, outcome) ==
  IF outcome = "404"
  THEN [st EXCEPT !.brokenLinks =
          Append(@, [url |-> link, referrers |-> ReferrersOf(st, link), status |-> 404])]
  ELSE IF outcome = "error" THEN PushError(st, link, <<"timeout">>)
  ELSE st

RecordProbe(st, link, outcome) ==
  IF outcome = "404"
  THEN [st EXCEPT !.brokenLinks =
          Append(@, [url |-> link, referrers |-> ReferrersOf(st, link), status |-> 404])]
  ELSE st

\* -------------------------------------------------- analyzeIsolatedPages
homepage == normalizeUrl(<<"/">>, baseUrl)

IsHomeKey(url) == url = homepage \/ url = baseUrl

HasNoIncomingAtAll(data, url) == data.incomingLinks = <<>>

\* Links from the home page do not count either.
HasNoIncomingButHome(data, url) ==
  Filter(data.incomingLinks, Range(data.incomingLinks) \ {url, homepage, baseUrl}) = <<>>

HasNoIncoming(data, url) ==
  Filter(data.incomingLinks, Range(data.incomingLinks) \ {url}) = <<>>

RECURSIVE IsolatedFrom(_, _)
IsolatedFrom(st, keys) ==
  IF keys = <<>> THEN <<>>
  ELSE LET url == Head(keys)
           data == st.pages[url]
           rest == IsolatedFrom(st, Tail(keys))
       IN IF IsHomeKey(url) THEN rest
          ELSE IF HasNoIncoming(data, url)
          THEN <<[url |-> url,
                  outgoingLinks |-> Len(data.outgoingLinks.header)
                                      + Len(data.outgoingLinks.footer)
                                      + Len(data.outgoingLinks.content)]>> \o rest
          ELSE rest

analyzeIsolatedPages(st) == IsolatedFrom(st, st.pagesKeys)

\* -------------------------------------------------------- generateReport
Strip(url) == stripBaseUrl(url, baseUrl)

StripAll(urls) == [i \in DOMAIN urls |-> Strip(urls[i])]

\* Array.prototype.find: a sequence holding the first match, or nothing.
RECURSIVE Find(_, _)
Find(s, matching) ==
  IF s = <<>> THEN <<>>
  ELSE IF Head(s) \in matching THEN <<Head(s)>> ELSE Find(Tail(s), matching)

RECURSIVE SumLinks(_, _)
SumLinks(st, keys) ==
  IF keys = <<>> THEN 0
  ELSE LET p == st.pages[Head(keys)]
       IN Len(p.outgoingLinks.header) + Len(p.outgoingLinks.footer)
            + Len(p.outgoingLinks.content) + SumLinks(st, Tail(keys))

ReportEntry(st, url, isolatedSet) ==
  LET data == st.pages[url]
      redirect == Find(st.redirects, {r \in Range(st.redirects) : r.from = url})
      error == Find(st.errors, {e \in Range(st.errors) : e.url = url})
      links == Range(data.outgoingLinks.header) \cup Range(data.outgoingLinks.footer)
                 \cup Range(data.outgoingLinks.content)
      broken == Filter(st.brokenLinks, {bl \in Range(st.brokenLinks) : bl.url \in links})
      images == Filter(st.brokenImagesKeys,
                       {k \in DOMAIN st.brokenImages : url \in Range(st.brokenImages[k].pages)})
  IN [incomingLinks |-> StripAll(SetAddAll(<<>>, data.incomingLinks)),
      isIsolated |-> url \in isolatedSet,
      outgoingLinks |-> [header |-> StripAll(data.outgoingLinks.header),
                         footer |-> StripAll(data.outgoingLinks.footer),
                         content |-> StripAll(data.outgoingLinks.content)],
      externalDomains |-> Filter(st.externalLinksKeys,
                                 {d \in DOMAIN st.externalLinks : url \in st.externalLinks[d]}),
      imagesCount |-> Len(data.images),
      issues |-> [redirect |-> [i \in DOMAIN redirect |->
                                  [to |-> Strip(redirect[i].to), status |-> redirect[i].status]],
                  error |-> IF error = <<>> THEN <<>> ELSE error[1].error,
                  brokenLinks |-> [i \in DOMAIN broken |->
                                     [url |-> Strip(broken[i].url), status |-> broken[i].status]],
                  brokenImages |-> [i \in DOMAIN images |->
                                      [url |-> Strip(images[i]),
                                       alt |-> st.brokenImages[images[i]].alt]]]]

\* pages[strippedUrl] = {...}: an object keeps its keys in the order of
\* their first assignment; a later assignment replaces the value.
RECURSIVE ReportPages(_, _, _, _)
ReportPages(st, keys, isolatedSet, acc) ==
  IF keys = <<>> THEN acc
  ELSE LET url == Head(keys)
       IN ReportPages(st, Tail(keys), isolatedSet,
            [pages |-> Put(acc.pages, Strip(url), ReportEntry(st, url, isolatedSet)),
             pagesKeys |-> SetAdd(acc.pagesKeys, Strip(url))])

generateReport(st) ==
  LET isolated == analyzeIsolatedPages(st)
      isolatedSet == {isolated[i].url : i \in DOMAIN isolated}
      built == ReportPages(st, st.pagesKeys, isolatedSet,
                           [pages |-> EmptyMap, pagesKeys |-> <<>>])
  IN [summary |-> [totalPages |-> Cardinality(st.visited),
                   totalLinks |-> SumLinks(st, st.pagesKeys),
                   brokenLinks |-> Len(st.brokenLinks),
                   brokenImages |-> Cardinality(DOMAIN st.brokenImages),
                   redirects |-> Len(st.redirects),
                   isolatedPages |-> Len(isolated),
                   errors |-> Len(st.errors),
                   externalDomains |-> Cardinality(DOMAIN st.externalLinks)],
      pages |-> built.pages,
      pagesKeys |-> built.pagesKeys]

\* A redirect counts as an issue too.
hasIssuesOrRedirects(rep) ==
  rep.summary.brokenLinks > 0 \/ rep.summary.brokenImages > 0 \/ rep.summary.errors > 0
    \/ rep.summary.redirects > 0

hasIssues(rep) ==
  rep.summary.brokenLinks > 0 \/ rep.summary.brokenImages > 0 \/ rep.summary.errors > 0

\* ------------------------------------- calculateLayers (site-visualize)
homeUri == <<"/">>

ISOLATED == -1

RECURSIVE CollectBucket(_, _, _, _)
CollectBucket(pages, keys, bucket, acc) ==
  IF keys = <<>> THEN acc
  ELSE CollectBucket(pages, Tail(keys), bucket,
                     SetAddAll(acc, pages[Head(keys)].outgoingLinks[bucket]))

identifyHeaderFooterPages(rp) ==
  LET headerPages == CollectBucket(rp.pages, rp.pagesKeys, "header", <<>>)
      footerPages == CollectBucket(rp.pages, rp.pagesKeys, "footer", <<>>)
  IN [header |-> headerPages,
      footer |-> footerPages,
      all |-> SetAddAll(headerPages, footerPages)]

LayersPush(layers, layer, uri) ==
  IF layer \in DOMAIN layers
  THEN [layers EXCEPT ![layer] = Append(@, uri)]
  ELSE Put(layers, layer, <<uri>>)

\* A page in both buckets goes to the footer layer.
NavTypeFooterWins(navPages, uri) ==
  LET inHeader == uri \in Range(navPages.header)
      inFooter == uri \in Range(navPages.footer)
  IN IF inHeader /\ inFooter THEN [type |-> "header-footer", layer |-> 2]
     ELSE IF inHeader THEN [type |-> "header", layer |-> 1]
     ELSE [type |-> "footer", layer |-> 2]

NavType(navPages, uri) ==
  LET inHeader == uri \in Range(navPages.header)
      inFooter == uri \in Range(navPages.footer)
  IN IF inHeader /\ inFooter THEN [type |-> "header-footer", layer |-> 1]
     ELSE IF inHeader THEN [type |-> "header", layer |-> 1]
     ELSE [type |-> "footer", layer |-> 2]

\* navPages.all.forEach: the header and footer pages go to layers 1 and 2.
RECURSIVE AssignNav(_, _, _)
AssignNav(navPages, uris, acc) ==
  IF uris = <<>> THEN acc
  ELSE LET uri == Head(uris)
           nav == NavType(navPages, uri)
       IN AssignNav(navPages, Tail(uris),
            [acc EXCEPT !.layers = LayersPush(@, nav.layer, uri),
                        !.pageMetadata = Put(@, uri, nav)])

SeedQueueHomeOnly(navPages) == <<[uri |-> homeUri, depth |-> 0]>>

SeedQueue(navPages) ==
  <<[uri |-> homeUri, depth |-> 0]>>
    \o [i \in DOMAIN navPages.header |-> [uri |-> navPages.header[i], depth |-> 1]]
    \o [i \in DOMAIN navPages.footer |-> [uri |-> navPages.footer[i], depth |-> 2]]

AllLinksOf(page) ==
  page.outgoingLinks.header \o page.outgoingLinks.footer \o page.outgoingLinks.content

ContentLayer(newDepth) == newDepth + 2

\* for (const linkUri of allLinks): the links of one dequeued page.
RECURSIVE VisitLinks(_, _, _)
VisitLinks(links, depth, acc) ==
  IF links = <<>> THEN acc
  ELSE LET linkUri == Head(links)
           newDepth == depth + 1
           newLayer == ContentLayer(newDepth)
       IN IF linkUri \in acc.visited THEN VisitLinks(Tail(links), depth, acc)
          ELSE VisitLinks(Tail(links), depth,
                 [acc EXCEPT !.visited = @ \cup {linkUri},
                             !.layers = LayersPush(@, newLayer, linkUri),
                             !.pageMetadata =
                                Put(@, linkUri, [type |-> "content", layer |-> newLayer]),
                             !.queue = Append(@, [uri |-> linkUri, depth |-> newDepth])])

\* while (queue.length > 0)
RECURSIVE Bfs(_, _)
Bfs(pages, acc) ==
  IF acc.queue = <<>> THEN acc
  ELSE LET item == Head(acc.queue)
           rest == [acc EXCEPT !.queue = Tail(@)]
       IN IF item.uri \notin DOMAIN pages THEN Bfs(pages, rest)
          ELSE Bfs(pages, VisitLinks(AllLinksOf(pages[item.uri]), item.depth, rest))

\* Only the unreached pages that no page links to.
MarkIsolatedUnlinked(rp, acc) ==
  LET linked == UNION {Range(AllLinksOf(rp.pages[u])) : u \in DOMAIN rp.pages}
      isolatedPages == Filter(rp.pagesKeys, (DOMAIN rp.pages \ acc.visited) \ linked)
      meta == [u \in Range(isolatedPages) |-> [type |-> "isolated", layer |-> ISOLATED]]
  IN [layers |-> IF Len(isolatedPages) > 0
                 THEN Put(acc.layers, ISOLATED, isolatedPages)
                 ELSE acc.layers,
      pageMetadata |-> meta @@ acc.pageMetadata,
      threw |-> FALSE]

MarkIsolated(rp, acc) ==
  LET isolatedPages == Filter(rp.pagesKeys, DOMAIN rp.pages \ acc.visited)
      meta == [u \in Range(isolatedPages) |-> [type |-> "isolated", layer |-> ISOLATED]]
  IN [layers |-> IF Len(isolatedPages) > 0
                 THEN Put(acc.layers, ISOLATED, isolatedPages)
                 ELSE acc.layers,
      pageMetadata |-> meta @@ acc.pageMetadata,
      threw |-> FALSE]

\* getPageStatus(pages[homeUri]) throws a TypeError when the report has no
\* page "/"; calculateLayers then returns nothing.
calculateLayers(rp) ==
  IF homeUri \notin DOMAIN rp.pages
  THEN [layers |-> EmptyMap, pageMetadata |-> EmptyMap, threw |-> TRUE]
  ELSE LET navPages == identifyHeaderFooterPages(rp)
           start == [layers |-> (0 :> <<homeUri>>) @@ (1 :> <<>>) @@ (2 :> <<>>),
                     pageMetadata |-> (homeUri :> [type |-> "home", layer |-> 0])]
           nav == AssignNav(navPages, navPages.all, start)
           done == Bfs(rp.pages,
                       [layers |-> nav.layers,
                        pageMetadata |-> nav.pageMetadata,
                        visited |-> {homeUri} \cup Range(navPages.all),
                        queue |-> SeedQueue(navPages)])
       IN MarkIsolated(rp, done)

\* ------------------------------------------- inputs of calculateLayers
\* Largest number of header and footer links of an input graph.
MaxNavLinks == 2
\* Largest number of content links of an input graph.
MaxContentLinks == 3
\* Largest number of links of an input graph.
MaxGraphLinks == 4

UriOrder == <<homeUri, <<"/", "a">>, <<"/", "b">>, <<"/", "c">>>>

Uris == Range(UriOrder)

RECURSIVE SubsetsUpTo(_, _)
SubsetsUpTo(S, k) ==
  IF k = 0 THEN {{}}
  ELSE LET smaller == SubsetsUpTo(S, k - 1)
       IN smaller \cup {T \cup {e} : T \in smaller, e \in S}

GraphLinks(keys) ==
  {nav \cup content :
     <<nav, content>> \in
        {nc \in SubsetsUpTo(keys \X {"header", "footer"} \X Uris, MaxNavLinks)
                  \X SubsetsUpTo(keys \X {"content"} \X Uris, MaxContentLinks) :
           Cardinality(nc[1]) + Cardinality(nc[2]) <= MaxGraphLinks}}

Bucket(links, src, bucket) ==
  Filter(UriOrder, {dst \in Uris : <<src, bucket, dst>> \in links})

GraphReport(keys, links) ==
  [pages |-> [src \in keys |->
                [outgoingLinks |-> [header |-> Bucket(links, src, "header"),
                                    footer |-> Bucket(links, src, "footer"),
                                    content |-> Bucket(links, src, "content")]]],
   pagesKeys |-> Filter(UriOrder, keys)]

\* The input graphs: every page present, or one page absent from the report
\* (the home page, or a page that others may link to).
GraphKeys == {Uris, Uris \ {homeUri}, Uris \ {<<"/", "c">>}}

\* ------------------------------------------------------------ actions
Init ==
  /\ state = InitState
  /\ maxPages \in 1..MaxPagesBound
  /\ pc = "seeding"
  /\ allLinks = <<>>
  /\ report = EmptyMap
  /\ exitCode = -1
  /\ layout = EmptyMap
  /\ fetched = <<>>
  /\ probed = <<>>
  /\ probeResults = <<>>
  /\ entered = <<>>
  /\ itemsLeft = MaxSiteItems
  /\ sitemap = [ok |-> FALSE, locs |-> <<>>]
  /\ response = NoResponse
  /\ inFlight = {}
  /\ args = [url |-> NULL, base |-> NULL]
  /\ result = <<>>

\* main: loadSitemap and the seeding of state.toVisit.
Seeding ==
  /\ pc = "seeding"
  /\ \E ok \in BOOLEAN, locs \in SeqsUpTo(SitemapLocs, MaxSitemap) :
       /\ (~ok => locs = <<>>)
       /\ state' = Seed(state, loadSitemap(ok, locs))
       /\ sitemap' = [ok |-> ok, locs |-> locs]
  /\ entered' = state'.toVisit
  /\ pc' = "draining"
  /\ UNCHANGED <<maxPages, allLinks, report, exitCode, layout, fetched, probed,
                 probeResults, itemsLeft,
                 response, inFlight, args, result>>

LoopConditionOffByOne(st) ==
  Len(st.toVisit) > 0 /\ Cardinality(st.visited) <= maxPages

\* The loop also stops at the first recorded error.
LoopConditionUntilError(st) ==
  Len(st.toVisit) > 0 /\ Cardinality(st.visited) < maxPages /\ st.errors = <<>>

\* The loop stops while one URL is still pending.
LoopConditionLeavesOne(st) ==
  Len(st.toVisit) > 1 /\ Cardinality(st.visited) < maxPages

LoopCondition(st) ==
  Len(st.toVisit) > 0 /\ Cardinality(st.visited) < maxPages

\* main: one iteration of the crawl loop (take the first URL of toVisit,
\* delete it, crawlPage).
CrawlStep ==
  /\ pc = "draining"
  /\ LoopCondition(state)
  /\ LET url == Head(state.toVisit)
         popped == [state EXCEPT !.toVisit = Tail(@)]
     IN \E resp \in Responses(url, itemsLeft) :
          /\ state' = crawlPage(popped, url, resp)
          /\ fetched' = IF ShouldSkip(popped, url) THEN fetched ELSE Append(fetched, url)
          /\ entered' = entered \o Filter(state'.toVisit,
                                          Range(state'.toVisit) \ Range(popped.toVisit))
          /\ itemsLeft' = itemsLeft - resp.cost
          /\ response' = IF ShouldSkip(popped, url) THEN response ELSE Outcome(resp)
  /\ UNCHANGED <<maxPages, pc, allLinks, report, exitCode, layout, probed,
                 probeResults, sitemap,
                 inFlight, args, result>>

\* main: the crawl loop ends; validateLinks collects the links of all pages.
BeginValidate ==
  /\ pc = "draining"
  /\ ~LoopCondition(state)
  /\ allLinks' = CollectLinks(state, state.pagesKeys, <<>>)
  /\ pc' = "validating"
  /\ UNCHANGED <<state, maxPages, report, exitCode, layout, fetched, probed,
                 probeResults, entered,
                 itemsLeft, sitemap, response, inFlight, args, result>>

\* validateLinks: one iteration of the loop over allLinks.
ProbeStep ==
  /\ pc = "validating"
  /\ allLinks # <<>>
  /\ LET link == Head(allLinks)
     IN IF NeedsProbe(state, link)
        THEN \E outcome \in ProbeOutcomes :
               /\ state' = RecordProbe(state, link, outcome)
               /\ probed' = Append(probed, link)
               /\ probeResults' = Append(probeResults, outcome)
        ELSE UNCHANGED <<state, probed, probeResults>>
  /\ allLinks' = Tail(allLinks)
  /\ UNCHANGED <<maxPages, pc, report, exitCode, layout, fetched, entered, itemsLeft,
                 sitemap, response, inFlight, args, result>>

\* main: generateReport and the exit status.
Report ==
  /\ pc = "validating"
  /\ allLinks = <<>>
  /\ report' = generateReport(state)
  /\ exitCode' = IF hasIssues(report') THEN 1 ELSE 0
  /\ pc' = "reported"
  /\ UNCHANGED <<state, maxPages, allLinks, layout, fetched, probed,
                 probeResults, entered, itemsLeft,
                 sitemap, response, inFlight, args, result>>

\* site-visualize main: calculateLayers(report.pages).
Visualize ==
  /\ pc = "reported"
  /\ layout' = calculateLayers(report)
  /\ pc' = "layered"
  /\ UNCHANGED <<state, maxPages, allLinks, report, exitCode, fetched, probed,
                 probeResults, entered,
                 itemsLeft, sitemap, response, inFlight, args, result>>

Next == Seeding \/ CrawlStep \/ BeginValidate \/ ProbeStep \/ Report \/ Visualize

Spec == Init /\ [][Next]_vars

\* main runs its steps one after the other without waiting on anything but
\* the awaited calls, each of which returns or throws within its timeout.
\* The visualizer is a separate program that is run by hand on the report.
\* Largest number of items the site serves in the runs checked for progress.
MaxFairItems == 1

InitFair ==
  /\ state = InitState
  /\ maxPages \in 1..MaxPagesBound
  /\ pc = "seeding"
  /\ allLinks = <<>>
  /\ report = EmptyMap
  /\ exitCode = -1
  /\ layout = EmptyMap
  /\ fetched = <<>>
  /\ probed = <<>>
  /\ probeResults = <<>>
  /\ entered = <<>>
  /\ itemsLeft = MaxFairItems
  /\ sitemap = [ok |-> FALSE, locs |-> <<>>]
  /\ response = NoResponse
  /\ inFlight = {}
  /\ args = [url |-> NULL, base |-> NULL]
  /\ result = <<>>

SpecFair ==
  /\ InitFair
  /\ [][Next]_vars
  /\ WF_vars(Seeding)
  /\ WF_vars(CrawlStep)
  /\ WF_vars(BeginValidate)
  /\ WF_vars(ProbeStep)
  /\ WF_vars(Report)

\* The runs on a site that serves no sitemap (loadSitemap returns null and
\* main starts from CONFIG.baseUrl), with one more item served.
MaxFallbackItems == 3

InitFallback ==
  /\ state = InitState
  /\ maxPages \in 1..MaxPagesBound
  /\ pc = "seeding"
  /\ allLinks = <<>>
  /\ report = EmptyMap
  /\ exitCode = -1
  /\ layout = EmptyMap
  /\ fetched = <<>>
  /\ probed = <<>>
  /\ probeResults = <<>>
  /\ entered = <<>>
  /\ itemsLeft = MaxFallbackItems
  /\ sitemap = [ok |-> FALSE, locs |-> <<>>]
  /\ response = NoResponse
  /\ inFlight = {}
  /\ args = [url |-> NULL, base |-> NULL]
  /\ result = <<>>

\* main: the sitemap request fails and toVisit is seeded with the base URL.
SeedingFallback ==
  /\ pc = "seeding"
  /\ state' = Seed(state, loadSitemap(FALSE, <<>>))
  /\ sitemap' = [ok |-> FALSE, locs |-> <<>>]
  /\ entered' = state'.toVisit
  /\ pc' = "draining"
  /\ UNCHANGED <<maxPages, allLinks, report, exitCode, layout, fetched, probed,
                 probeResults, itemsLeft, response, inFlight, args, result>>

NextFallback == SeedingFallback \/ CrawlStep \/ BeginValidate \/ ProbeStep \/ Report

SpecFallback == InitFallback /\ [][NextFallback]_vars

\* The crawl loop of main alone, on a site without a sitemap. Every awaited
\* call of an iteration returns or throws within its timeout, so an iteration
\* that can be taken is taken, and so is the exit from the loop.
NextDrain == SeedingFallback \/ CrawlStep \/ BeginValidate

SpecDrain ==
  /\ Init
  /\ [][NextDrain]_vars
  /\ WF_vars(SeedingFallback)
  /\ WF_vars(CrawlStep)
  /\ WF_vars(BeginValidate)

\* crawlPage on the first page of a crawl, with the image requests of the
\* page still running when page.goto returns (it waits for domcontentloaded
\* only). response.failedImages is the Set that the requestfailed listener
\* fills; inFlight are the requests that are going to fail.
MaxImages == 2

RaceImageSrcs == {<<"/", "i">>, <<"/", "j">>, <<"/", "k">>}

RaceImages == SeqsUpTo([src : RaceImageSrcs, alt : Alts], MaxImages)

InitImages ==
  /\ state = [Seed(InitState, NULL) EXCEPT !.toVisit = Tail(@)]
  /\ maxPages \in 1..MaxPagesBound
  /\ pc = "loading"
  /\ allLinks = <<>>
  /\ report = EmptyMap
  /\ exitCode = -1
  /\ layout = EmptyMap
  /\ fetched = <<>>
  /\ probed = <<>>
  /\ probeResults = <<>>
  /\ entered = <<baseUrl>>
  /\ itemsLeft = 0
  /\ sitemap = [ok |-> FALSE, locs |-> <<>>]
  /\ \E imgs \in RaceImages :
       /\ response = [kind |-> "ok", status |-> 200, finalUrl |-> baseUrl,
                      redirectStatus |-> NoStatus, images |-> imgs, failedImages |-> {}]
       /\ inFlight \in SUBSET {Href(NewURL(imgs[x].src, baseUrl)) : x \in DOMAIN imgs}
  /\ args = [url |-> NULL, base |-> NULL]
  /\ result = <<>>

\* page.on('requestfailed'): an image request fails and its URL is added to
\* failedImages, before or after the images of the page are classified.
RequestFailed ==
  /\ pc \in {"loading", "classified"}
  /\ \E u \in inFlight :
       /\ response' = [response EXCEPT !.failedImages = @ \cup {u}]
       /\ inFlight' = inFlight \ {u}
  /\ UNCHANGED <<state, maxPages, pc, allLinks, report, exitCode, layout, fetched, probed,
                 probeResults, entered, itemsLeft, sitemap, args, result>>

\* crawlPage from the return of page.goto on: the links and images are
\* extracted and classified against failedImages as it is at that moment.
ClassifyImages ==
  /\ pc = "loading"
  /\ state' = crawlPage(state, baseUrl,
                        [kind |-> "ok", status |-> response.status,
                         finalUrl |-> response.finalUrl,
                         redirectStatus |-> response.redirectStatus,
                         headerLinks |-> <<>>, footerLinks |-> <<>>, contentLinks |-> <<>>,
                         images |-> response.images,
                         failedImages |-> response.failedImages, cost |-> 0])
  /\ fetched' = Append(fetched, baseUrl)
  /\ pc' = "classified"
  /\ UNCHANGED <<maxPages, allLinks, report, exitCode, layout, probed, probeResults,
                 entered, itemsLeft, sitemap, response, inFlight, args, result>>

NextImages == RequestFailed \/ ClassifyImages

SpecImages == InitImages /\ [][NextImages]_vars

\* calculateLayers applied to every bounded input graph.
InitLayers ==
  /\ state = InitState
  /\ maxPages = 1
  /\ pc = "reported"
  /\ allLinks = <<>>
  /\ \E keys \in GraphKeys : \E links \in GraphLinks(keys) :
        report = GraphReport(keys, links)
  /\ exitCode = 0
  /\ layout = EmptyMap
  /\ fetched = <<>>
  /\ probed = <<>>
  /\ probeResults = <<>>
  /\ entered = <<>>
  /\ itemsLeft = 0
  /\ sitemap = [ok |-> FALSE, locs |-> <<>>]
  /\ response = NoResponse
  /\ inFlight = {}
  /\ args = [url |-> NULL, base |-> NULL]
  /\ result = <<>>

NextLayers == Visualize

SpecLayers == InitLayers /\ [][NextLayers]_vars

\* normalizeUrl called on its own, on the URL and then on its own result.
UrlInputs ==
  {<<"/">>, <<"/", "a">>, <<"/", "a", "/">>, <<"/", "a", "#f">>, <<"/", "a", "/", "#f">>,
   <<"#f">>, <<"a">>, <<"a", "/">>, <<"!">>,
   <<"H">>, <<"H", "/">>, <<"H", "#f">>, <<"H", "/", "a">>, <<"H", "/", "a", "/">>,
   <<"H", "/", "a", "/", "#f">>, <<"H", "/", "a", "/", "b">>,
   <<"/", "a", "/", "/">>, <<"H", "/", "a", "/", "/">>,
   <<"X">>, <<"X", "/">>, <<"X", "/", "a", "/">>}

BaseInputs ==
  {<<"H">>, <<"H", "/">>, <<"H", "/", "a">>, <<"H", "/", "a", "/">>, <<"H", "/", "a", "/", "b">>}

InitUrl ==
  /\ state = InitState
  /\ maxPages = 1
  /\ pc = "helper"
  /\ allLinks = <<>>
  /\ report = EmptyMap
  /\ exitCode = -1
  /\ layout = EmptyMap
  /\ fetched = <<>>
  /\ probed = <<>>
  /\ probeResults = <<>>
  /\ entered = <<>>
  /\ itemsLeft = 0
  /\ sitemap = [ok |-> FALSE, locs |-> <<>>]
  /\ response = NoResponse
  /\ inFlight = {}
  /\ args \in [url : UrlInputs, base : BaseInputs]
  /\ result = <<>>

Normalize ==
  /\ pc = "helper"
  /\ Len(result) < 2
  /\ result # <<>> => result[1] # NULL
  /\ result' = Append(result, normalizeUrl(IF result = <<>> THEN args.url ELSE result[1],
                                           args.base))
  /\ UNCHANGED <<state, maxPages, pc, allLinks, report, exitCode, layout, fetched, probed,
                 probeResults,
                 entered, itemsLeft, sitemap, response, inFlight, args>>

NextUrl == Normalize

SpecUrl == InitUrl /\ [][NextUrl]_vars

\* ============================================================== claims
NoDuplicates(s) == Cardinality(Range(s)) = Len(s)

OutLinks(page) ==
  Range(page.outgoingLinks.header) \cup Range(page.outgoingLinks.footer)
    \cup Range(page.outgoingLinks.content)

CrawlEnded == pc \in {"validating", "reported", "layered"}

\* C1: the visited set and the pending queue are disjoint, pending holds no
\* URL twice, and no URL enters pending a second time (a URL is added only
\* when it is in neither visited nor pending, and it never leaves both).
C1_FrontierDisjoint ==
  /\ state.visited \cap Range(state.toVisit) = {}
  /\ NoDuplicates(state.toVisit)
  /\ NoDuplicates(entered)
  /\ Range(entered) = state.visited \cup Range(state.toVisit)

\* C1 witness: while draining, with pages visited and pages pending, a link
\* to an already visited page has been classified.
C1_Witness ==
  /\ pc = "draining"
  /\ state.toVisit # <<>>
  /\ \E u \in state.visited :
       u \in DOMAIN state.pages /\ state.pages[u].incomingLinks # <<>>

\* C2: no URL is handed to the page fetcher more than once in a run.
C2_FetchedOnce == NoDuplicates(fetched)

\* C2 witness: two pages were fetched and the second links to the first.
C2_Witness ==
  /\ Len(fetched) >= 2
  /\ fetched[2] \in DOMAIN state.pages
  /\ fetched[1] \in OutLinks(state.pages[fetched[2]])

\* C3: for every URL X the distinct entries of X's incomingLinks are exactly
\* the pages whose outgoingLinks (any bucket) contain X; a URL without a
\* record is linked from no page.
C3_IncomingMatchesOutgoing ==
  /\ \A x \in DOMAIN state.pages :
       Range(state.pages[x].incomingLinks)
         = {a \in DOMAIN state.pages : x \in OutLinks(state.pages[a])}
  /\ \A a \in DOMAIN state.pages : OutLinks(state.pages[a]) \subseteq DOMAIN state.pages

\* C3 witness: in the final graph a page is linked twice from one page and
\* its incomingLinks names that page twice.
C3_Witness ==
  /\ CrawlEnded
  /\ \E x \in DOMAIN state.pages :
       /\ Len(state.pages[x].incomingLinks) = 2
       /\ Cardinality(Range(state.pages[x].incomingLinks)) = 1

\* C4: every page given a content layer has depth (layer - 2) equal to the
\* least, over the seeds (home 0, header pages 1, footer pages 2), of the
\* seed's depth plus the number of link hops from the seed to the page.
\* A seed keeps its seed depth (a path is counted from the last seed on it),
\* so that no content page is deeper than 1 + the depth of a page linking
\* to it.
\* Larger than the depth of any page of an input graph.
Infinity == Cardinality(Uris) + 3

MinOf(S) == CHOOSE m \in S : \A n \in S : m <= n

SeedDepth(rp, u) ==
  LET navPages == identifyHeaderFooterPages(rp)
  IN MinOf({Infinity}
             \cup (IF u = homeUri THEN {0} ELSE {})
             \cup (IF u \in Range(navPages.header) THEN {1} ELSE {})
             \cup (IF u \in Range(navPages.footer) THEN {2} ELSE {}))

RECURSIVE Relax(_, _, _)
Relax(rp, dist, rounds) ==
  IF rounds = 0 THEN dist
  ELSE Relax(rp,
             [v \in DOMAIN dist |->
                IF SeedDepth(rp, v) < Infinity THEN dist[v]
                ELSE MinOf({dist[v]} \cup {dist[u] + 1 : u \in {w \in DOMAIN rp.pages :
                                                           /\ w \in DOMAIN dist
                                                           /\ dist[w] < Infinity
                                                           /\ v \in OutLinks(rp.pages[w])}})],
             rounds - 1)

ShortestDepth(rp) ==
  LET nodes == DOMAIN rp.pages \cup {homeUri}
                 \cup UNION {OutLinks(rp.pages[u]) : u \in DOMAIN rp.pages}
  IN Relax(rp, [v \in nodes |-> SeedDepth(rp, v)], Cardinality(nodes))

C4_ShortestPathDepth ==
  (pc = "layered" /\ ~layout.threw) =>
     \A u \in DOMAIN layout.pageMetadata :
        layout.pageMetadata[u].type = "content" =>
           layout.pageMetadata[u].layer - 2 = ShortestDepth(report)[u]

\* C5: the home page gets layer 0 and role home, and is listed in layer 0 only.
C5_HomeIsLayerZero ==
  (pc = "layered" /\ ~layout.threw) =>
     /\ layout.pageMetadata[homeUri] = [type |-> "home", layer |-> 0]
     /\ \A l \in DOMAIN layout.layers :
          homeUri \in Range(layout.layers[l]) <=> l = 0

\* C6: visited never holds more than maxPages URLs; the crawl loop is left
\* exactly when pending is empty or |visited| = maxPages; and every URL
\* taken from the head of pending while the budget is not exhausted is
\* fetched.
BudgetSpent(st) == Cardinality(st.visited) = maxPages

C6_BudgetAndTermination ==
  /\ [](Cardinality(state.visited) <= maxPages)
  /\ [](CrawlEnded => (state.toVisit = <<>> \/ BudgetSpent(state)))
  /\ [][(pc = "draining" /\ (state.toVisit = <<>> \/ BudgetSpent(state)))
          => (pc' = "validating" /\ state' = state)]_vars
  /\ [][(pc = "draining" /\ pc' = "draining")
          => /\ state.toVisit # <<>>
             /\ state'.visited = state.visited \cup {Head(state.toVisit)}
             /\ fetched' = Append(fetched, Head(state.toVisit))]_vars

\* C6 witness: the crawl ended on the budget, with URLs still pending, after
\* fetching maxPages >= 2 pages.
C6_Witness ==
  /\ pc = "validating"
  /\ state.toVisit # <<>>
  /\ maxPages >= 2
  /\ Len(fetched) = maxPages
  /\ BudgetSpent(state)

\* C7: URLs are fetched in the order in which they entered pending: the
\* fetched URLs are always an initial part of the entered URLs.
C7_FifoOrder ==
  /\ Len(fetched) <= Len(entered)
  /\ fetched = SubSeq(entered, 1, Len(fetched))

\* C7 witness: two seeds; the first one fetched discovered a new URL, and the
\* second seed was fetched next.
C7_Witness ==
  /\ Len(fetched) = 2
  /\ Len(entered) >= 3
  /\ entered[3] \in OutLinks(state.pages[fetched[1]])
  /\ fetched[2] = entered[2]

\* C8: when the crawl has ended, a PageRecord exists for every visited URL
\* and for every URL that is a link target.
C8_RecordForEveryVisited ==
  CrawlEnded =>
     /\ state.visited \subseteq DOMAIN state.pages
     /\ \A a \in DOMAIN state.pages : OutLinks(state.pages[a]) \subseteq DOMAIN state.pages

\* C9: calculateLayers marks isolated exactly the pages of the input that are
\* not the home page, not in any header or footer bucket, and not reachable
\* from a seed through pages of the input; every other page of the input
\* gets a numeric layer.
RECURSIVE ReachableFrom(_, _)
ReachableFrom(rp, S) ==
  LET more == S \cup UNION {OutLinks(rp.pages[u]) : u \in S \cap DOMAIN rp.pages}
  IN IF more = S THEN S ELSE ReachableFrom(rp, more)

Seeds(rp) ==
  {homeUri}
    \cup UNION {Range(rp.pages[u].outgoingLinks.header) : u \in DOMAIN rp.pages}
    \cup UNION {Range(rp.pages[u].outgoingLinks.footer) : u \in DOMAIN rp.pages}

C9_IsolatedIffUnreached ==
  (pc = "layered" /\ ~layout.threw) =>
     \A u \in DOMAIN report.pages :
        /\ u \in DOMAIN layout.pageMetadata
        /\ IF u \in ReachableFrom(report, Seeds(report))
           THEN /\ layout.pageMetadata[u].type # "isolated"
                /\ layout.pageMetadata[u].layer >= 0
                /\ (ISOLATED \in DOMAIN layout.layers
                      => u \notin Range(layout.layers[ISOLATED]))
           ELSE /\ layout.pageMetadata[u] = [type |-> "isolated", layer |-> ISOLATED]
                /\ ISOLATED \in DOMAIN layout.layers
                /\ u \in Range(layout.layers[ISOLATED])

\* C9 witness: one page is reached only through the content link of a header
\* page, and another page of the input is isolated.
C9_Witness ==
  /\ pc = "layered"
  /\ ~layout.threw
  /\ \E u, v, w \in DOMAIN report.pages :
       /\ layout.pageMetadata[u].type = "header"
       /\ layout.pageMetadata[v].type = "content"
       /\ v \in Range(report.pages[u].outgoingLinks.content)
       /\ v \notin ReachableFrom(report, {homeUri})
       /\ layout.pageMetadata[w].type = "isolated"

\* C10: analyzeIsolatedPages reports a page exactly when it is not the home
\* page and every entry of its incomingLinks is the page itself; the home
\* page (the base URL, with or without its final slash) is never reported.
ReportedIsolated(st) ==
  {analyzeIsolatedPages(st)[i].url : i \in DOMAIN analyzeIsolatedPages(st)}

C10_OrphanIffNoForeignIncoming ==
  pc = "reported" =>
     /\ \A u \in DOMAIN state.pages :
          u \in ReportedIsolated(state)
            <=> /\ u \notin {baseUrl, baseUrl \o <<"/">>}
                /\ \A i \in DOMAIN state.pages[u].incomingLinks :
                     state.pages[u].incomingLinks[i] = u
     /\ ReportedIsolated(state) \subseteq DOMAIN state.pages
     /\ report.summary.isolatedPages = Cardinality(ReportedIsolated(state))

\* C10 witness: a page whose only incoming link is its own is reported, and
\* the home page, which nothing links to, is not.
C10_Witness ==
  /\ pc = "reported"
  /\ \E u \in ReportedIsolated(state) : state.pages[u].incomingLinks # <<>>
  /\ \E h \in {baseUrl, baseUrl \o <<"/">>} :
       /\ h \in DOMAIN state.pages
       /\ state.pages[h].incomingLinks = <<>>
       /\ h \notin ReportedIsolated(state)

\* C11: a page X of the report whose links from other pages all come from
\* pages the layering never reaches has non-empty incomingLinks and is not
\* flagged as an orphan (isIsolated), yet calculateLayers puts it in the
\* isolated layer.
Linkers(rp, x) == {y \in DOMAIN rp.pages : x \in OutLinks(rp.pages[y])}

LinkedOnlyFromUnreached(rp, x) ==
  /\ Linkers(rp, x) \ {x} # {}
  /\ \A y \in Linkers(rp, x) \ {x} : y \notin ReachableFrom(rp, Seeds(rp))

OrphanAndIsolatedDisagree(x) ==
  /\ report.pages[x].incomingLinks # <<>>
  /\ ~report.pages[x].isIsolated
  /\ x \in DOMAIN layout.pageMetadata
  /\ layout.pageMetadata[x] = [type |-> "isolated", layer |-> ISOLATED]

C11_OrphanIsolatedDisagree ==
  (pc = "layered" /\ ~layout.threw) =>
     \A x \in DOMAIN report.pages :
        LinkedOnlyFromUnreached(report, x) => OrphanAndIsolatedDisagree(x)

\* C11 (amended): the same, for a page X that is neither the home page nor
\* named in the header or footer bucket of any page.
C11_DisagreeOffNavigation ==
  (pc = "layered" /\ ~layout.threw) =>
     \A x \in DOMAIN report.pages \ Seeds(report) :
        LinkedOnlyFromUnreached(report, x) => OrphanAndIsolatedDisagree(x)

\* C11 witness: the crawl produced a page that only an unreached page links
\* to, through content, and the layering marked it isolated.
C11_Witness ==
  /\ pc = "layered"
  /\ ~layout.threw
  /\ \E x \in DOMAIN report.pages \ Seeds(report) :
       /\ LinkedOnlyFromUnreached(report, x)
       /\ layout.pageMetadata[x].type = "isolated"
       /\ report.pages[x].incomingLinks # <<>>

\* C12: every URL named in the header bucket of some page is assigned layer 1
\* and every URL named in a footer bucket but in no header bucket is assigned
\* layer 2, whatever content links lead to it; it is listed in that layer
\* and in no content or isolated layer.
HeaderUris(rp) ==
  UNION {Range(rp.pages[u].outgoingLinks.header) : u \in DOMAIN rp.pages}

FooterUris(rp) ==
  UNION {Range(rp.pages[u].outgoingLinks.footer) : u \in DOMAIN rp.pages}

AssignedLayer(u, layer) ==
  /\ u \in DOMAIN layout.pageMetadata
  /\ layout.pageMetadata[u].layer = layer
  /\ \A l \in DOMAIN layout.layers \ {0} :
       u \in Range(layout.layers[l]) <=> l = layer

Fetching == pc = "draining" /\ fetched' # fetched

OnlySlashApart(u, v) == u = v \o <<"/">> \/ v = u \o <<"/">>

C13_RedirectRecorded ==
  /\ [][(Fetching /\ response'.status = 200) =>
          LET url == Head(state.toVisit)
              final == response'.finalUrl
          IN IF final # url /\ ~OnlySlashApart(url, final)
             THEN /\ Len(state'.redirects) = Len(state.redirects) + 1
                  /\ SubSeq(state'.redirects, 1, Len(state.redirects)) = state.redirects
                  /\ state'.redirects[Len(state'.redirects)].from = url
                  /\ state'.redirects[Len(state'.redirects)].to = final
             ELSE state'.redirects = state.redirects]_vars
  /\ [](\A i, j \in DOMAIN state.redirects :
          state.redirects[i].from = state.redirects[j].from => i = j)

\* C13 witness: one page was redirected elsewhere and recorded; the page
\* fetched after it was redirected from its slash form and left no record.
C13_Witness ==
  /\ Len(fetched) = 2
  /\ Len(state.redirects) = 1
  /\ state.redirects[1].from = fetched[1]
  /\ response.status = 200
  /\ response.finalUrl \o <<"/">> = fetched[2]

\* C14: the status stored in a redirect record is the HTTP status of the
\* redirect itself (a page answering 301 yields a record with status 301).
C14_RedirectStatusKept ==
  [][(Fetching /\ Len(state'.redirects) > Len(state.redirects)) =>
       state'.redirects[Len(state'.redirects)].status = response'.redirectStatus]_vars

\* C15: a fetch that answers a non-200 status or throws records exactly one
\* error entry, for the requested URL, and classifies nothing: no page record
\* changes (the failed page's outgoingLinks and images stay empty, no
\* incomingLinks changes) and nothing is enqueued.  No URL has two entries.
FetchFailed(resp) == resp.kind \in {"gotoThrows", "bad", "extractThrows"}

C15_FailureRecordsOneError ==
  /\ [][(Fetching /\ FetchFailed(response')) =>
          LET url == Head(state.toVisit)
          IN /\ Len(state'.errors) = Len(state.errors) + 1
             /\ SubSeq(state'.errors, 1, Len(state.errors)) = state.errors
             /\ state'.errors[Len(state'.errors)].url = url
             /\ \A u \in DOMAIN state.pages :
                  u \in DOMAIN state'.pages /\ state'.pages[u] = state.pages[u]
             /\ url \in DOMAIN state'.pages =>
                  /\ OutLinks(state'.pages[url]) = {}
                  /\ state'.pages[url].images = <<>>
             /\ state'.toVisit = Tail(state.toVisit)]_vars
  /\ [](\A i, j \in DOMAIN state.errors :
          state.errors[i].url = state.errors[j].url => i = j)

\* C15 witness: a page that another page links to failed to load while a URL
\* was still pending.
C15_Witness ==
  /\ pc = "draining"
  /\ response.kind = "bad"
  /\ Len(state.errors) = 1
  /\ state.errors[1].url \in DOMAIN state.pages
  /\ state.pages[state.errors[1].url].incomingLinks # <<>>
  /\ state.toVisit # <<>>

\* C16: a failed fetch never stops the run: while a URL is pending and the
\* budget is not spent, the step after a failure fetches the next pending
\* URL, and the run goes on to link validation and to the report.
C16_FailureNeverFatal ==
  /\ [][(pc = "draining" /\ FetchFailed(response)
           /\ state.toVisit # <<>> /\ Cardinality(state.visited) < maxPages)
          => (pc' = "draining" /\ fetched' = Append(fetched, Head(state.toVisit)))]_vars
  /\ ((pc = "draining" /\ FetchFailed(response)) ~> pc = "validating")
  /\ ((pc = "draining" /\ FetchFailed(response))
        ~> (pc = "reported" /\ report # EmptyMap))

\* C16 witness: the first fetch failed, a second page was fetched after it,
\* and the report was generated.
C16_Witness ==
  /\ pc = "reported"
  /\ Len(fetched) >= 2
  /\ state.errors # <<>>
  /\ state.errors[1].url = fetched[1]
  /\ fetched[2] \in DOMAIN state.pages
  /\ report.summary.errors >= 1

\* C17: right after seeding nothing is visited, and pending holds the
\* canonical forms (no fragment, no final slash except on the site root) of
\* the internal sitemap URLs, in sitemap order, each once, when the sitemap
\* loads and lists at least one internal URL; otherwise pending holds the
\* base URL alone.
CanonicalLoc(loc) ==
  LET noHash == IF loc[Len(loc)] = "#f" THEN SubSeq(loc, 1, Len(loc) - 1) ELSE loc
  IN IF Len(noHash) > 2 /\ noHash[Len(noHash)] = "/"
     THEN SubSeq(noHash, 1, Len(noHash) - 1)
     ELSE noHash

RECURSIVE InternalCanonical(_)
InternalCanonical(locs) ==
  IF locs = <<>> THEN <<>>
  ELSE (IF Head(locs)[1] = "H" THEN <<CanonicalLoc(Head(locs))>> ELSE <<>>)
         \o InternalCanonical(Tail(locs))

RECURSIVE KeepFirst(_, _)
KeepFirst(s, seen) ==
  IF s = <<>> THEN <<>>
  ELSE IF Head(s) \in seen THEN KeepFirst(Tail(s), seen)
       ELSE <<Head(s)>> \o KeepFirst(Tail(s), seen \cup {Head(s)})

ExpectedSeeds(sm) ==
  IF sm.ok /\ InternalCanonical(sm.locs) # <<>>
  THEN KeepFirst(InternalCanonical(sm.locs), {})
  ELSE <<baseUrl>>

C17_SeedingFillsPending ==
  (pc = "draining" /\ fetched = <<>>) =>
     /\ state.visited = {}
     /\ state.toVisit = ExpectedSeeds(sitemap)
     /\ NoDuplicates(state.toVisit)

\* C17 witness: the sitemap listed an external URL and the same internal page
\* twice, once with a fragment; pending holds that page once.
C17_Witness ==
  /\ pc = "draining"
  /\ fetched = <<>>
  /\ sitemap.ok
  /\ \E i \in DOMAIN sitemap.locs : sitemap.locs[i][1] = "X"
  /\ \E i \in DOMAIN sitemap.locs : sitemap.locs[i][Len(sitemap.locs[i])] = "#f"
  /\ Len(state.toVisit) = 1

\* C18: normalizeUrl is idempotent: applied with the same base to its own
\* (non-null) result it returns that result.
C18_NormalizeIdempotent ==
  (pc = "helper" /\ Len(result) = 2) => result[2] = result[1]

\* C19: a normalized URL carries no fragment and ends with a slash only when
\* it is the site root; this holds for every link target recorded during
\* classification, whatever page the link was found on.
SiteRoot == baseUrl \o <<"/">>

Canonical(u) ==
  /\ "#f" \notin Range(u)
  /\ u[Len(u)] = "/" => u = SiteRoot

C19_NoFragmentNoFinalSlash ==
  \A p \in DOMAIN state.pages : \A u \in OutLinks(state.pages[p]) : Canonical(u)

\* C20: no external URL is ever pending, visited, fetched, a key of the page
\* records or probed by the link validator; a fetch changes the external
\* registry only by adding the fetched page to the referring set of an
\* external hostname.
IsExternal(u) == u[1] \in Origins \ {baseUrl[1]}

ExternalHostnames == {hostnameOf(o) : o \in Origins \ {baseUrl[1]}}

ReferringPages(st, h) ==
  IF h \in DOMAIN st.externalLinks THEN st.externalLinks[h] ELSE {}

C20_ExternalNeverCrawled ==
  /\ [](\A u \in Range(state.toVisit) \cup state.visited \cup DOMAIN state.pages
                   \cup Range(fetched) \cup Range(entered) \cup Range(allLinks)
                   \cup Range(probed) : ~IsExternal(u))
  /\ [](DOMAIN state.externalLinks \subseteq ExternalHostnames)
  /\ [][\A h \in ExternalHostnames :
          IF Fetching
          THEN /\ ReferringPages(state, h) \subseteq ReferringPages(state', h)
               /\ ReferringPages(state', h) \ ReferringPages(state, h)
                    \subseteq {Head(state.toVisit)}
          ELSE ReferringPages(state', h) = ReferringPages(state, h)]_vars

\* C20 witness: a fetched page linked to an external site and to an internal
\* page that was left to the link validator, which probed it.
C20_Witness ==
  /\ pc = "reported"
  /\ \E h \in DOMAIN state.externalLinks : state.externalLinks[h] # {}
  /\ \E i \in DOMAIN sitemap.locs : IsExternal(sitemap.locs[i])
  /\ probed # <<>>

\* C21: the page list of a broken-image entry names each page at most once
\* (a page embedding the failing image several times appears once), and its
\* pages are pages that were fetched, in crawl order.
C21_ReferringPagesDistinct ==
  \A k \in DOMAIN state.brokenImages :
     /\ NoDuplicates(state.brokenImages[k].pages)
     /\ state.brokenImages[k].pages
          = Filter(fetched, Range(state.brokenImages[k].pages))

\* C22: the broken images are keyed by image URL, one entry each; an entry's
\* alt text is that of the first failing occurrence of the image on the page
\* that created the entry, and no later occurrence, on that page or another,
\* changes it.
FailingOccurrences(resp, url, k) ==
  {i \in DOMAIN resp.images :
     normalizeUrl(resp.images[i].src, url) = k /\ k \in resp.failedImages}

C22_AltOfFirstOccurrence ==
  /\ [][IF Fetching
        THEN \A k \in DOMAIN state'.brokenImages :
               IF k \in DOMAIN state.brokenImages
               THEN state'.brokenImages[k].alt = state.brokenImages[k].alt
               ELSE LET occ == FailingOccurrences(response', Head(state.toVisit), k)
                    IN /\ occ # {}
                       /\ state'.brokenImages[k].alt
                            = response'.images[MinOf(occ)].alt
        ELSE state'.brokenImages = state.brokenImages]_vars
  /\ [](/\ NoDuplicates(state.brokenImagesKeys)
        /\ Range(state.brokenImagesKeys) = DOMAIN state.brokenImages)

\* C22 witness: an image failed on two pages; the second page gave it another
\* alt text than the one stored with the entry.
C22_Witness ==
  \E k \in DOMAIN state.brokenImages :
     /\ Cardinality(Range(state.brokenImages[k].pages)) = 2
     /\ \E i \in DOMAIN response.images :
          /\ k \in response.failedImages
          /\ response.images[i].alt # state.brokenImages[k].alt

\* C23: once validateLinks has gone through all the links, brokenLinks holds
\* exactly one entry, with status 404, for every URL that is in some
\* outgoingLinks bucket, is not in visited and whose probe returned 404, and
\* no other entry; every such URL was probed exactly once, and the referrers
\* of an entry are the pages that link to its URL.
ValidationDone ==
  \/ pc = "validating" /\ allLinks = <<>>
  \/ pc \in {"reported", "layered"}

LinkedUrls(st) == UNION {OutLinks(st.pages[p]) : p \in DOMAIN st.pages}

Returned404 == {probed[i] : i \in {j \in DOMAIN probed : probeResults[j] = "404"}}

BrokenUrls(st) == {st.brokenLinks[i].url : i \in DOMAIN st.brokenLinks}

C23_BrokenLinksExact ==
  ValidationDone =>
     /\ NoDuplicates(probed)
     /\ Range(probed) = LinkedUrls(state) \ state.visited
     /\ Cardinality(BrokenUrls(state)) = Len(state.brokenLinks)
     /\ BrokenUrls(state) = Returned404
     /\ \A i \in DOMAIN state.brokenLinks :
          /\ state.brokenLinks[i].status = 404
          /\ Range(Referrers(state, state.brokenLinks[i].referrers))
               = {p \in DOMAIN state.pages :
                    state.brokenLinks[i].url \in OutLinks(state.pages[p])}

\* Two unfetched links were probed; one of them returned 404 and the other
\* did not.
C23_Witness ==
  /\ ValidationDone
  /\ Len(state.brokenLinks) = 1
  /\ Len(probed) = 2
  /\ Referrers(state, state.brokenLinks[1].referrers) # <<>>

\* C24: a probe that throws or returns another status than 404 leaves
\* brokenLinks as it was and validation goes on with the next link: while
\* validateLinks runs, every linked URL that was not fetched is either probed
\* already or still waiting in allLinks, and the report is only made once
\* allLinks is empty.
Probing == pc = "validating" /\ probed' # probed

C24_ProbeFailureIgnored ==
  /\ [][(Probing /\ probeResults'[Len(probeResults')] # "404")
          => /\ state' = state
             /\ pc' = "validating"
             /\ allLinks' = Tail(allLinks)
             /\ exitCode' = exitCode]_vars
  /\ [](pc = "validating"
          => (LinkedUrls(state) \ state.visited)
               \subseteq (Range(probed) \cup Range(allLinks)))
  /\ [][pc = "validating" /\ pc' # "validating" => allLinks = <<>>]_vars

\* The first probe threw, and the second link was probed all the same and
\* returned 404.
C24_Witness ==
  /\ Len(probeResults) = 2
  /\ probeResults[1] = "error"
  /\ probeResults[2] = "404"
  /\ Len(state.brokenLinks) = 1
  /\ state.brokenLinks[1].url = probed[2]

\* C25: the exit status is nonzero exactly when the report counts at least
\* one broken link, broken image or page error (the counts being those of
\* the registries); the counts of redirects and isolated pages play no part.
Exited == pc \in {"reported", "layered"}

IsPrefix(s, t) == Len(s) <= Len(t) /\ s = SubSeq(t, 1, Len(s))

C26_FrozenAfterDraining ==
  [][pc' \in {"validating", "reported", "layered"}
       => /\ state'.visited = state.visited
          /\ state'.toVisit = state.toVisit
          /\ state'.pages = state.pages
          /\ state'.pagesKeys = state.pagesKeys
          /\ state'.redirects = state.redirects
          /\ state'.errors = state.errors
          /\ state'.brokenImages = state.brokenImages
          /\ state'.brokenImagesKeys = state.brokenImagesKeys
          /\ state'.externalLinks = state.externalLinks
          /\ state'.externalLinksKeys = state.externalLinksKeys
          /\ IsPrefix(state.brokenLinks, state'.brokenLinks)
          /\ pc = "reported" => report' = report]_vars

\* All the later stages have run on a crawl that left URLs pending, recorded
\* an error or a redirect, and the validator found a broken link.
C26_Witness ==
  /\ pc = "layered"
  /\ state.toVisit # <<>>
  /\ state.brokenLinks # <<>>
  /\ state.errors # <<>> \/ state.redirects # <<>>

\* C27: a page A occurs in B.incomingLinks as many times as B occurs in the
\* three outgoingLinks buckets of A taken together, and the incomingLinks
\* list of a report entry names no source twice.
Count(s, x) == Cardinality({i \in DOMAIN s : s[i] = x})

C27_Multiplicity ==
  \A a \in DOMAIN state.pages, b \in DOMAIN state.pages :
     Count(state.pages[b].incomingLinks, a)
       = Count(state.pages[a].outgoingLinks.header, b)
           + Count(state.pages[a].outgoingLinks.footer, b)
           + Count(state.pages[a].outgoingLinks.content, b)

C27_ReportSourcesOnce ==
  Exited => \A u \in DOMAIN report.pages : NoDuplicates(report.pages[u].incomingLinks)

\* C28: a URL named in a header bucket and in a footer bucket has the type
\* header-footer and the layer 1, and the initial queue of the breadth-first
\* search holds it exactly once, at depth 1.
QueueEntries(queue, u) == {i \in DOMAIN queue : queue[i].uri = u}

C28_HeaderFooterRole ==
  (pc = "layered" /\ ~layout.threw) =>
     \A u \in (HeaderUris(report) \cap FooterUris(report)) \ {homeUri} :
        /\ layout.pageMetadata[u].type = "header-footer"
        /\ AssignedLayer(u, 1)

C28_HeaderFooterQueuedOnce ==
  (pc = "layered" /\ ~layout.threw) =>
     LET queue == SeedQueue(identifyHeaderFooterPages(report))
     IN \A u \in (HeaderUris(report) \cap FooterUris(report)) \ {homeUri} :
          /\ layout.pageMetadata[u].type = "header-footer"
          /\ AssignedLayer(u, 1)
          /\ Cardinality(QueueEntries(queue, u)) = 1
          /\ \A i \in QueueEntries(queue, u) : queue[i].depth = 1

\* C29: the referrers recorded with a fetch error are the incomingLinks the
\* failed page had when its fetch failed. A page pushes itself to the
\* incomingLinks of its targets while it is being fetched, so every referrer
\* recorded with an error is a page that was fetched before the failed one.
FetchIndex(u) == CHOOSE i \in DOMAIN fetched : fetched[i] = u

C29_ReferrersAsOfFailure ==
  \A i \in DOMAIN state.errors :
     \A r \in Range(Referrers(state, state.errors[i].referrers)) :
        /\ r \in Range(fetched)
        /\ FetchIndex(r) < FetchIndex(state.errors[i].url)

\* C30: every URL in toVisit, in visited or among the keys of pages is left
\* unchanged by normalizeUrl against the base URL of the site, so that no two
\* of them name the same page.
Held(st) == Range(st.toVisit) \cup st.visited \cup DOMAIN st.pages

C30_KeysCanonical ==
  /\ \A u \in Held(state) : normalizeUrl(u, baseUrl) = u
  /\ \A u \in Held(state), v \in Held(state) :
       normalizeUrl(u, baseUrl) = normalizeUrl(v, baseUrl) => u = v

\* C31: the record of every page that was fetched successfully has the status
\* 200, whether that fetch created the record or a link to the page had
\* created it before; the record of a page that was never fetched has no
\* status.
ErrorUrls(st) == {st.errors[i].url : i \in DOMAIN st.errors}

FetchedOk == Range(fetched) \ ErrorUrls(state)

C31_StatusOfFetchedPages ==
  /\ \A u \in FetchedOk : u \in DOMAIN state.pages /\ state.pages[u].status = 200
  /\ \A u \in DOMAIN state.pages \ Range(fetched) : state.pages[u].status = NoStatus

\* The two halves that hold: a record created by the fetch of its own page
\* has the status 200, and a never-fetched page has none.
C31_StatusWhenCreatedByFetch ==
  /\ \A u \in FetchedOk :
       /\ u \in DOMAIN state.pages
       /\ state.pages[u].status \in {200, NoStatus}
       /\ state.pages[u].incomingLinks = <<>> => state.pages[u].status = 200
  /\ \A u \in DOMAIN state.pages \ Range(fetched) : state.pages[u].status = NoStatus

\* C32: after every crawl step each URL recorded in an outgoingLinks bucket
\* is in visited or in toVisit; so when the crawl loop ends with toVisit
\* empty, every link target has been fetched and validateLinks probes
\* nothing.
C32_LinkTargetsTracked ==
  /\ LinkedUrls(state) \subseteq (state.visited \cup Range(state.toVisit))
  /\ (pc # "draining" /\ state.toVisit = <<>>)
       => /\ LinkedUrls(state) \subseteq Range(fetched)
          /\ probed = <<>>
          /\ state.brokenLinks = <<>>

\* A crawl of three pages that link to one another ended with toVisit empty,
\* and the validator went through the links without a probe.
C32_Witness ==
  /\ ValidationDone
  /\ state.toVisit = <<>>
  /\ Len(fetched) = 3
  /\ Cardinality(LinkedUrls(state)) >= 2
  /\ probed = <<>>

\* C33: a run goes through seeding, the crawl loop, validation and the report
\* in that order and never back: a page is fetched only after the seeding and
\* before the first probe, a probe is sent only when toVisit is empty or the
\* page budget is spent, and the report is built only when every link has
\* been examined.
Phase(p) ==
  CASE p = "seeding" -> 0
    [] p = "draining" -> 1
    [] p = "validating" -> 2
    [] p = "reported" -> 3
    [] OTHER -> 4

C33_PhaseOrder ==
  /\ [][Phase(pc') \in {Phase(pc), Phase(pc) + 1}]_vars
  /\ [][fetched' # fetched
          => /\ pc = "draining" /\ pc' = "draining"
             /\ probed = <<>>
             /\ Head(state.toVisit) \in Range(entered)]_vars
  /\ [][probed' # probed
          => /\ pc = "validating"
             /\ fetched' = fetched
             /\ (state.toVisit = <<>> \/ Cardinality(state.visited) >= maxPages)]_vars
  /\ [][report' # report
          => /\ pc = "validating" /\ pc' = "reported"
             /\ allLinks = <<>>
             /\ (LinkedUrls(state) \ state.visited) \subseteq Range(probed)
             /\ probed' = probed]_vars
  /\ [](pc = "seeding" => fetched = <<>> /\ probed = <<>> /\ report = EmptyMap)
  /\ [](pc = "draining" => probed = <<>> /\ report = EmptyMap)
  /\ [](pc = "validating" => report = EmptyMap)

\* A run that fetched two pages, then sent two probes, then built its report.
C33_Witness ==
  /\ pc = "reported"
  /\ Len(fetched) = 2
  /\ Len(probed) = 2
  /\ state.toVisit # <<>>

\* C34: the crawl loop fetches at most maxPages pages and is always left, also
\* on a site where every fetched page links to a page not seen before.
C34_DrainingTerminates ==
  /\ [](Len(fetched) <= maxPages)
  /\ <>(pc = "validating")
  /\ [][pc = "validating" => pc' = "validating" /\ fetched' = fetched]_vars

\* The loop was left on the budget: each of the two fetched pages linked to
\* a page not seen before, and the last of them is still pending.
C34_Witness ==
  /\ pc = "validating"
  /\ maxPages = 2
  /\ Len(fetched) = 2
  /\ Len(entered) = 3
  /\ state.toVisit # <<>>
  /\ \A i \in 1..2 : entered[i + 1] \in OutLinks(state.pages[fetched[i]])

\* C35: once the images of a fetched page are classified, every image of the
\* page whose request fails has an entry in brokenImages that names the page,
\* whether the request failed before the classification or after it.
FailingImages == inFlight \cup response.failedImages

C35_FailedImageRecorded ==
  pc = "classified" =>
     \A u \in FailingImages :
        /\ u \in DOMAIN state.brokenImages
        /\ baseUrl \in Range(state.brokenImages[u].pages)

\* The part that holds: the images whose request had failed when the page
\* was classified are recorded with the page, and no other image is.
C35_RecordedIfFailedBefore ==
  [][ClassifyImages
       => /\ DOMAIN state'.brokenImages = response.failedImages
          /\ \A u \in response.failedImages :
               baseUrl \in Range(state'.brokenImages[u].pages)]_vars

\* C36: in the result of calculateLayers every page with metadata is listed
\* in exactly one layer, once, and that layer is its pageMetadata layer;
\* every listed page has metadata, and every page of the report is listed.
LayersOf(u) == {l \in DOMAIN layout.layers : u \in Range(layout.layers[l])}

C36_OneLayerPerPage ==
  (pc = "layered" /\ ~layout.threw) =>
     /\ \A u \in DOMAIN layout.pageMetadata :
          /\ LayersOf(u) = {layout.pageMetadata[u].layer}
          /\ Count(layout.layers[layout.pageMetadata[u].layer], u) = 1
     /\ \A l \in DOMAIN layout.layers :
          Range(layout.layers[l]) \subseteq DOMAIN layout.pageMetadata
     /\ DOMAIN report.pages \subseteq DOMAIN layout.pageMetadata

\* The same, for the reports in which no header or footer link names the
\* home page.
C36_OneLayerUnlessHomeInNavigation ==
  (pc = "layered" /\ ~layout.threw
     /\ homeUri \notin HeaderUris(report) \cup FooterUris(report)) =>
     /\ \A u \in DOMAIN layout.pageMetadata :
          /\ LayersOf(u) = {layout.pageMetadata[u].layer}
          /\ Count(layout.layers[layout.pageMetadata[u].layer], u) = 1
     /\ \A l \in DOMAIN layout.layers :
          Range(layout.layers[l]) \subseteq DOMAIN layout.pageMetadata
     /\ DOMAIN report.pages \subseteq DOMAIN layout.pageMetadata

\* C37: the report has exactly one pages entry for every page record: no two
\* keys of state.pages are stripped to the same report key, and the entry of
\* a key is built from the record of that key.
C37_OneEntryPerRecord ==
  Exited =>
     /\ \A u \in DOMAIN state.pages, v \in DOMAIN state.pages :
          Strip(u) = Strip(v) => u = v
     /\ Cardinality(DOMAIN report.pages) = Cardinality(DOMAIN state.pages)
     /\ \A u \in DOMAIN state.pages :
          report.pages[Strip(u)]
            = ReportEntry(state, u, ReportedIsolated(state))

\* C38: no URL has both an error entry and a broken-link entry: a URL with an
\* error entry is in visited and has one error entry only, and the URL of a
\* broken link is not in visited.
C38_ErrorsAndBrokenLinksDisjoint ==
  /\ ErrorUrls(state) \cap BrokenUrls(state) = {}
  /\ ErrorUrls(state) \subseteq state.visited
  /\ \A u \in ErrorUrls(state) :
       Cardinality({i \in DOMAIN state.errors : state.errors[i].url = u}) = 1
  /\ BrokenUrls(state) \cap state.visited = {}

\* A page that another page links to failed to load, and the probe of an
\* unfetched link returned 404.
C38_Witness ==
  /\ ValidationDone
  /\ ErrorUrls(state) \cap LinkedUrls(state) # {}
  /\ state.brokenLinks # <<>>

\* C39 as stated: every page whose report entry has isIsolated set is given
\* the layer isolated (and the type isolated) by calculateLayers run on that
\* report.
C39_OrphansInIsolatedLayer ==
  (pc = "layered" /\ ~layout.threw) =>
     \A u \in DOMAIN report.pages :
        report.pages[u].isIsolated
          => /\ layout.pageMetadata[u].layer = ISOLATED
             /\ layout.pageMetadata[u].type = "isolated"

\* C39, restricted: every page whose report entry has isIsolated set and that
\* no header or footer bucket names (its own included) is given the layer
\* isolated by calculateLayers run on that report.
C39_OrphansOffNavigationIsolated ==
  (pc = "layered" /\ ~layout.threw) =>
     \A u \in DOMAIN report.pages \ (HeaderUris(report) \cup FooterUris(report)) :
        report.pages[u].isIsolated
          => /\ layout.pageMetadata[u].layer = ISOLATED
             /\ layout.pageMetadata[u].type = "isolated"

\* An orphan that no navigation bucket names is in the isolated layer, next
\* to a page that the home page links to and that has a content layer.
C39_Witness ==
  /\ pc = "layered"
  /\ ~layout.threw
  /\ \E u \in DOMAIN report.pages \ (HeaderUris(report) \cup FooterUris(report)) :
       /\ report.pages[u].isIsolated
       /\ layout.pageMetadata[u].layer = ISOLATED
  /\ \E v \in DOMAIN report.pages :
       /\ ~report.pages[v].isIsolated
       /\ layout.pageMetadata[v].type = "content"

====
